---- MODULE Spec2Model ----
(***************************************************************************)
(* A model of fastNLP/core/losses.py: the parameter-binding layer of       *)
(* LossBase.__call__, LossInForward, _prepare_losser and the pre_pro       *)
(* pipeline of Loss.                                                       *)
(*                                                                         *)
(* Python dicts keep insertion order, and the code's results depend on it  *)
(* (the reversed map of line 51, the renaming of _map_args), so a dict is  *)
(* modelled as a sequence of <<key, value>> pairs with distinct keys.      *)
(***************************************************************************)
EXTENDS Integers, Sequences, FiniteSets, TLC

\* ------------------------------------------------------------------ bounds
\* most entries handed to NewLoss, in key_map and as keyword arguments together
MaxMapLen == 1
\* most entries of the pre_pro list handed to Loss
MaxPrePro == 2
\* most add_pre_pro calls on a Loss object
MaxAdds == 2
\* largest number of dimensions of a tensor returned by get_loss
MaxDims == 1

\* the names of formal parameters and of dictionary keys; formal lists and dicts
\* hold each name at most once, so the set bounds their lengths
Names == {"x", "y"}

\* the place of a value where a call produced none (it raised before)
NoVal == [tensor |-> FALSE, dims |-> -1]

NoOutcome == "none"

\* ------------------------------------------------------- ordered dicts
DistinctSeqs(S) ==
    UNION { { s \in [1..m -> S] : \A i, j \in 1..m : i # j => s[i] # s[j] }
            : m \in 0..Cardinality(S) }

DKeys(d) == { d[i][1] : i \in DOMAIN d }

DGet(d, k) == d[CHOOSE i \in DOMAIN d : d[i][1] = k][2]

\* dict.update({k: v}): an existing key keeps its position
DUpdate(d, k, v) ==
    IF k \in DKeys(d)
    THEN [ i \in DOMAIN d |-> IF d[i][1] = k THEN <<k, v>> ELSE d[i] ]
    ELSE Append(d, <<k, v>>)

RECURSIVE DUpdateAll(_, _)
DUpdateAll(d, e) ==
    IF e = <<>> THEN d
    ELSE DUpdateAll(DUpdate(d, e[1][1], e[1][2]), Tail(e))

\* the dicts with keys in K, the value of key k being V(k)
DictsOf(K, V(_)) ==
    { [ i \in DOMAIN s |-> <<s[i], V(s[i])>> ] : s \in DistinctSeqs(K) }

\* ------------------------------------------------------------ LossBase
VARIABLES
    args,          \* required formals of get_loss, in declaration order
    defaults,      \* defaulted formals of get_loss, in declaration order
    varargs,       \* TRUE when get_loss declares *args
    param_map,     \* self.param_map
    checked,       \* self._checked
    output_dict,   \* the last call's output_dict
    target_dict,   \* the last call's target_dict
    force_check,   \* the last call's force_check
    was_checked,   \* self._checked when the last call began
    outcome,       \* how the last call ended
    missing,       \* CheckRes.missing of the last call
    duplicated,    \* CheckRes.duplicated of the last call
    param_value,   \* the keyword arguments of the last call's get_loss(**param_value)
    invoked,       \* how many times the last call invoked get_loss
    loss,          \* what get_loss returned in the last call
    ret            \* what the last call returned

baseVars == <<args, defaults, varargs, param_map, checked, output_dict, target_dict,
              force_check, was_checked, outcome, missing, duplicated, param_value,
              invoked, loss, ret>>

OutVal(k) == <<"out", k>>
TgtVal(k) == <<"tgt", k>>
DefaultVal(p) == <<"default", p>>

OutputDicts == DictsOf(Names, OutVal)
TargetDicts == DictsOf(Names, TgtVal)

\* the results of get_loss: a non-tensor, or a tensor of some number of dimensions
LossValues == { [tensor |-> FALSE, dims |-> 0] }
              \cup { [tensor |-> TRUE, dims |-> d] : d \in 0..MaxDims }

\* the signatures of get_loss: required formals, then defaulted ones
Signatures ==
    { sg \in DistinctSeqs(Names) \X DistinctSeqs(Names) :
           { sg[1][i] : i \in DOMAIN sg[1] } \cap { sg[2][i] : i \in DOMAIN sg[2] } = {} }

\* the dicts a caller can hand to NewLoss as key_map, or as keyword arguments
KeyMaps ==
    { d \in UNION { [1..m -> Names \X Names] : m \in 0..MaxMapLen } :
        \A i, j \in DOMAIN d : i # j => d[i][1] # d[j][1] }

\* NewLoss.__init__: param_map is key_map, then updated with the keyword arguments
NewLoss(key_map, kwargs) == DUpdateAll(key_map, kwargs)

\* AddIdentity with the test of lines 43 and 47 left out: every formal is reset
RECURSIVE AddIdentityOverwrite(_, _)
AddIdentityOverwrite(pm, formals) ==
    IF formals = <<>> THEN pm
    ELSE AddIdentityOverwrite(DUpdate(pm, formals[1], formals[1]), Tail(formals))

\* lines 42-48: the identity entry for every formal that has none
RECURSIVE AddIdentity(_, _)
AddIdentity(pm, formals) ==
    IF formals = <<>> THEN pm
    ELSE AddIdentity(IF formals[1] \in DKeys(pm) THEN pm
                     ELSE DUpdate(pm, formals[1], formals[1]),
                     Tail(formals))

CompleteMap(pm) == AddIdentity(AddIdentity(pm, args), defaults)

\* line 51: {val: key for key, val in param_map.items()}
RECURSIVE ReversedMap(_)
ReversedMap(pm) ==
    IF pm = <<>> THEN <<>>
    ELSE LET r == ReversedMap(SubSeq(pm, 1, Len(pm) - 1))
             e == pm[Len(pm)]
         IN  DUpdate(r, e[2], e[1])

\* Duplicated stopping at the first common key
DuplicatedFirstOnly(out, tgt) ==
    LET ks == [ i \in DOMAIN out |-> out[i][1] ]
        d  == SelectSeq(ks, LAMBDA key : key \in DKeys(tgt))
    IN  IF d = <<>> THEN d ELSE <<d[1]>>

\* lines 57-59
Duplicated(out, tgt) ==
    LET ks == [ i \in DOMAIN out |-> out[i][1] ]
    IN  SelectSeq(ks, LAMBDA key : key \in DKeys(tgt))

\* ParamValDict without the loop of lines 64-65
ParamValDictOutputOnly(out, tgt) == DUpdateAll(<<>>, out)

\* lines 61-65
ParamValDict(out, tgt) == DUpdateAll(DUpdateAll(<<>>, out), tgt)

\* lines 68-70
Missing(pm, pvd) == SelectSeq(args, LAMBDA p : DGet(pm, p) \notin DKeys(pvd))

\* _map_args(maps, **kwargs): a key found in maps is renamed, the others are kept;
\* a later entry overwrites an earlier one of the same name
RECURSIVE MapArgs(_, _)
MapArgs(maps, kwargs) ==
    IF kwargs = <<>> THEN <<>>
    ELSE LET o == MapArgs(maps, SubSeq(kwargs, 1, Len(kwargs) - 1))
             e == kwargs[Len(kwargs)]
         IN  IF e[1] \in DKeys(maps) THEN DUpdate(o, DGet(maps, e[1]), e[2])
             ELSE DUpdate(o, e[1], e[2])

\* _build_args(func, **kwargs): the defaulted formals with their default values,
\* updated with the entries of kwargs that name a formal
BuildArgs(kwargs) ==
    LET needed == { args[i] : i \in DOMAIN args } \cup { defaults[i] : i \in DOMAIN defaults }
        dflt   == [ i \in DOMAIN defaults |-> <<defaults[i], DefaultVal(defaults[i])>> ]
    IN  DUpdateAll(dflt, SelectSeq(kwargs, LAMBDA e : e[1] \in needed))

\* line 83: get_loss(**param_value) binds only when every required formal is given
Binds(pv) == \A i \in DOMAIN args : args[i] \in DKeys(pv)

\* IsScalarTensor without the test of the size
IsAnyTensor(l) == l.tensor

\* line 85: isinstance(loss, torch.Tensor) and len(loss.size()) == 0
IsScalarTensor(l) == l.tensor /\ l.dims = 0

\* CheckedAfterForce ignoring force_check
CheckedIgnoringForce(chk, fc) == chk

\* line 40: self._checked and not force_check
CheckedAfterForce(chk, fc) == chk /\ ~fc

\* CheckedAfterPass with line 78 left out
CheckedLeftAsIs(chk) == chk

\* line 78: the value of self._checked once the call is past the raise of line 73
CheckedAfterPass(chk) == TRUE

\* line 72
CheckFails(dup, mis) == Len(dup) > 0 \/ Len(mis) > 0

\* LossBase.__call__(output_dict, target_dict, force_check). The formal list of a
\* function is a list, never None, so the raise of lines 36-39 is not reached.
Call(out, tgt, fc) ==
    /\ output_dict' = out
    /\ target_dict' = tgt
    /\ force_check' = fc
    /\ was_checked' = checked
    /\ UNCHANGED <<args, defaults, varargs>>
    /\ IF varargs
       THEN \* lines 30-33
            /\ outcome' = "RuntimeError_varargs"
            /\ missing' = <<>> /\ duplicated' = <<>> /\ param_value' = <<>>
            /\ invoked' = 0 /\ loss' = NoVal /\ ret' = NoVal
            /\ UNCHANGED <<param_map, checked>>
       ELSE LET chk == CheckedAfterForce(checked, fc)
                pm  == IF ~chk THEN CompleteMap(param_map) ELSE param_map
                rev == ReversedMap(pm)
                dup == IF ~chk THEN Duplicated(out, tgt) ELSE <<>>
                pvd == ParamValDict(out, tgt)
                mis == IF ~chk THEN Missing(pm, pvd) ELSE <<>>
                pv  == BuildArgs(MapArgs(rev, pvd))
            IN  /\ param_map' = pm
                /\ missing' = mis
                /\ duplicated' = dup
                /\ IF CheckFails(dup, mis)
                   THEN \* lines 72-76
                        /\ outcome' = "CheckError"
                        /\ checked' = chk
                        /\ param_value' = <<>>
                        /\ invoked' = 0 /\ loss' = NoVal /\ ret' = NoVal
                   ELSE /\ checked' = CheckedAfterPass(chk)
                        /\ param_value' = pv
                        /\ IF ~Binds(pv)
                           THEN \* line 83: the call itself raises TypeError
                                /\ outcome' = "TypeError_bind"
                                /\ invoked' = 0 /\ loss' = NoVal /\ ret' = NoVal
                           ELSE \E l \in LossValues :
                                /\ invoked' = 1
                                /\ loss' = l
                                /\ IF IsScalarTensor(l)
                                   THEN outcome' = "returned" /\ ret' = l
                                   ELSE /\ outcome' = IF ~l.tensor THEN "RuntimeError_type"
                                                      ELSE "RuntimeError_size"
                                        /\ ret' = NoVal

\* the state after LossBase.__init__ (lines 14-17) and NewLoss.__init__ (lines 94-105)
InitBase ==
    /\ \E sg \in Signatures : args = sg[1] /\ defaults = sg[2]
    /\ varargs \in BOOLEAN
    /\ \E key_map \in KeyMaps, kwargs \in KeyMaps :
          /\ Len(key_map) + Len(kwargs) <= MaxMapLen
          /\ param_map = NewLoss(key_map, kwargs)
    /\ checked = FALSE
    /\ output_dict = <<>> /\ target_dict = <<>>
    /\ force_check = FALSE /\ was_checked = FALSE /\ outcome = NoOutcome
    /\ missing = <<>> /\ duplicated = <<>> /\ param_value = <<>>
    /\ invoked = 0 /\ loss = NoVal /\ ret = NoVal

\* -------------------------------------------- LossInForward, _prepare_losser
VARIABLES
    losser,        \* what _prepare_losser returned, or how construction ended
    loss_key,      \* LossInForward.loss_key
    fwd_output,    \* the output_dict of the last LossInForward call
    fwd_outcome,   \* how the last LossInForward call ended
    fwd_missing,   \* CheckRes.missing of the last LossInForward call
    fwd_ret        \* what the last LossInForward call returned

fwdVars == <<losser, loss_key, fwd_output, fwd_outcome, fwd_missing, fwd_ret>>

\* the keys of the dict a model's forward returns
FwdKeys == {"loss", "pred", "seq_len"}

\* line 127: the default of loss_key
DefaultLossKey == "loss"

\* what a caller passes as loss_key: a str, or something that is no str
NotAStr == "<int>"
LossKeyInputs == FwdKeys \cup {NotAStr}

\* the output dicts of a forward: any value under any key
FwdDicts ==
    UNION { { [ i \in DOMAIN s |-> <<s[i], v[i]>> ] : v \in [DOMAIN s -> LossValues] }
            : s \in DistinctSeqs(FwdKeys) }

\* a function body that ends without a return statement returns None
PyNone == [tensor |-> FALSE, dims |-> 0]

\* LossInForward.get_loss(**kwargs), lines 133-141
ForwardGetLoss(key, kwargs) ==
    IF key \notin DKeys(kwargs)
    THEN [raised |-> TRUE, missing |-> <<key>>, value |-> NoVal]
    ELSE [raised |-> FALSE, missing |-> <<>>, value |-> PyNone]

\* LossInForward.__init__(loss_key), lines 127-131
NewLossInForward(key) ==
    /\ losser = "unset"
    /\ IF key = NotAStr
       THEN losser' = "TypeError" /\ UNCHANGED loss_key
       ELSE losser' = "LossInForward" /\ loss_key' = key
    /\ UNCHANGED <<fwd_output, fwd_outcome, fwd_missing, fwd_ret>>

\* _prepare_losser(None), lines 156-158
PrepareLosserNone ==
    /\ losser = "unset"
    /\ losser' = "LossInForward"
    /\ loss_key' = DefaultLossKey
    /\ UNCHANGED <<fwd_output, fwd_outcome, fwd_missing, fwd_ret>>

\* _prepare_losser(losser) with a losser that is no LossBase, lines 161-162
PrepareLosserOther ==
    /\ losser = "unset"
    /\ losser' = "TypeError"
    /\ UNCHANGED <<loss_key, fwd_output, fwd_outcome, fwd_missing, fwd_ret>>

\* _prepare_losser(losser) with a losser that is a LossBase, lines 159-160: the
\* losser is returned as it is
PrepareLosserGiven ==
    /\ losser = "LossInForward"
    /\ UNCHANGED fwdVars

\* LossInForward.__call__(output_dict, predict_dict, force_check), lines 143-152
ForwardCall(out) ==
    /\ losser = "LossInForward"
    /\ fwd_output' = out
    /\ LET r == ForwardGetLoss(loss_key, out)
       IN  IF r.raised
           THEN /\ fwd_outcome' = "CheckError"
                /\ fwd_missing' = r.missing
                /\ fwd_ret' = NoVal
           ELSE /\ fwd_missing' = <<>>
                /\ IF IsScalarTensor(r.value)
                   THEN fwd_outcome' = "returned" /\ fwd_ret' = r.value
                   ELSE /\ fwd_outcome' = IF ~r.value.tensor THEN "TypeError"
                                          ELSE "RuntimeError_size"
                        /\ fwd_ret' = NoVal
    /\ UNCHANGED <<losser, loss_key>>

InitForward ==
    /\ losser = "unset"
    /\ loss_key = DefaultLossKey
    /\ fwd_output = <<>>
    /\ fwd_outcome = NoOutcome
    /\ fwd_missing = <<>>
    /\ fwd_ret = NoVal

\* ------------------------------------------------------------------ Loss
VARIABLES
    pre_pro,       \* self.pre_pro
    has_loss,      \* TRUE when self._loss is a loss function, FALSE when it is None
    given,         \* the pre_pro list the constructor was given
    added,         \* the arguments of the add_pre_pro calls so far, in call order
    pipe_kwargs,   \* the kwargs of the last call
    pipe_outcome,  \* how the last call ended
    loss_calls,    \* how many times the last call called self._loss
    loss_arg       \* the (predict, truth) pair the last call reached line 364 with

\* pipe_kwargs, pipe_outcome, loss_calls and loss_arg describe the last operation
\* when it was a call, and are cleared by add_pre_pro
pipeVars == <<pre_pro, has_loss, given, added, pipe_kwargs, pipe_outcome,
              loss_calls, loss_arg>>

\* function objects, and None
FnSquash == "<function squash>"
FnUnpad == "<function unpad>"
FnUnpadMask == "<function unpad_mask>"
FnMask == "<function mask>"
FnUser == "<function f>"
None == "None"

Callables == {FnSquash, FnUnpad, FnUnpadMask, FnMask, FnUser}

\* lines 259-264
method_dict ==
    [ n \in {"squash", "unpad", "unpad_mask", "mask"} |->
        CASE n = "squash" -> FnSquash
          [] n = "unpad" -> FnUnpad
          [] n = "unpad_mask" -> FnUnpadMask
          [] n = "mask" -> FnMask ]

\* method_dict.get(name)
MethodDictGet(name) == IF name \in DOMAIN method_dict THEN method_dict[name] ELSE None

\* what a caller hands over as a pre_pro entry: function objects, the names of
\* pre-defined functions, a name that is none of them
PreProInputs == {FnUser, FnSquash, "mask", "unpad", "bogus"}

PreProLists == UNION { [1..n -> PreProInputs] : n \in 0..MaxPrePro }

\* the kwargs of a call
KwargsInputs == {"lens", "mask"}

\* line 316: f if callable(f) else method_dict.get(f)
Resolve(f) == IF f \in Callables THEN f ELSE MethodDictGet(f)

\* Loss.__init__(loss_name, pre_pro), lines 307-316
NewPrePro(lst) == [ i \in DOMAIN lst |-> Resolve(lst[i]) ]

\* AddPrePro putting the function in front of the list
AddPreProInFront(pp, func) ==
    IF func \notin Callables
    THEN IF MethodDictGet(func) = None THEN pp ELSE <<MethodDictGet(func)>> \o pp
    ELSE <<func>> \o pp

\* Loss.add_pre_pro(func), lines 324-328
AddPrePro(pp, func) ==
    IF func \notin Callables
    THEN IF MethodDictGet(func) = None THEN pp ELSE Append(pp, MethodDictGet(func))
    ELSE Append(pp, func)

\* the initial (predict, truth) pair; a pair is the sequence of the applications
\* <<function, kwargs>> made to it, the functions being left uninterpreted
InputPair == <<>>

\* f(predict, truth, **kwargs)
Apply(f, pair, kw) == Append(pair, <<f, kw>>)

\* lines 359-362
RECURSIVE RunPrePro(_, _, _)
RunPrePro(pp, pair, kw) ==
    IF pp = <<>> THEN pair
    ELSE IF pp[1] = None THEN RunPrePro(Tail(pp), pair, kw)
    ELSE RunPrePro(Tail(pp), Apply(pp[1], pair, kw), kw)

\* Loss.add_pre_pro(func)
AddPreProCall(func) ==
    /\ Len(added) < MaxAdds
    /\ pre_pro' = AddPrePro(pre_pro, func)
    /\ added' = Append(added, func)
    /\ pipe_kwargs' = NoOutcome /\ pipe_outcome' = NoOutcome
    /\ loss_calls' = 0 /\ loss_arg' = <<>>
    /\ UNCHANGED <<has_loss, given>>

\* Loss.__call__(predict, truth, **kwargs), lines 350-364
PipeCall(kw) ==
    /\ pipe_kwargs' = kw
    /\ LET pair == RunPrePro(pre_pro, InputPair, kw)
       IN  IF has_loss
           THEN /\ pipe_outcome' = "returned"
                /\ loss_calls' = 1
                /\ loss_arg' = pair
           ELSE \* self._loss is None: calling it raises TypeError
                /\ pipe_outcome' = "TypeError"
                /\ loss_calls' = 0
                /\ loss_arg' = pair
    /\ UNCHANGED <<pre_pro, has_loss, given, added>>

\* the state after Loss.__init__(loss_name, pre_pro)
InitPipe ==
    /\ has_loss \in BOOLEAN
    /\ given \in PreProLists
    /\ pre_pro = NewPrePro(given)
    /\ added = <<>>
    /\ pipe_kwargs = NoOutcome
    /\ pipe_outcome = NoOutcome
    /\ loss_calls = 0
    /\ loss_arg = <<>>

InitIdlePipe ==
    /\ has_loss = FALSE /\ given = <<>> /\ pre_pro = <<>> /\ added = <<>>
    /\ pipe_kwargs = NoOutcome /\ pipe_outcome = NoOutcome
    /\ loss_calls = 0 /\ loss_arg = <<>>

\* ------------------------------------------------------- specifications
vars == <<baseVars, fwdVars, pipeVars>>

\* a LossBase object and its calls
CallLoss ==
    /\ \E out \in OutputDicts, tgt \in TargetDicts, fc \in BOOLEAN : Call(out, tgt, fc)
    /\ UNCHANGED <<fwdVars, pipeVars>>

InitIdleForward == InitForward

Init == InitBase /\ InitIdleForward /\ InitIdlePipe

Next == CallLoss

Spec == Init /\ [][Next]_vars

\* a LossInForward object, made directly or by _prepare_losser, and its calls
MakeLossInForward ==
    /\ \E key \in LossKeyInputs : NewLossInForward(key)
    /\ UNCHANGED <<baseVars, pipeVars>>

PrepareNone == PrepareLosserNone /\ UNCHANGED <<baseVars, pipeVars>>

PrepareOther == PrepareLosserOther /\ UNCHANGED <<baseVars, pipeVars>>

PrepareGiven == PrepareLosserGiven /\ UNCHANGED <<baseVars, pipeVars>>

CallForward ==
    /\ \E out \in FwdDicts : ForwardCall(out)
    /\ UNCHANGED <<baseVars, pipeVars>>

InitIdleBase ==
    /\ args = <<>> /\ defaults = <<>> /\ varargs = FALSE
    /\ param_map = <<>> /\ checked = FALSE
    /\ output_dict = <<>> /\ target_dict = <<>>
    /\ force_check = FALSE /\ was_checked = FALSE /\ outcome = NoOutcome
    /\ missing = <<>> /\ duplicated = <<>> /\ param_value = <<>>
    /\ invoked = 0 /\ loss = NoVal /\ ret = NoVal

InitFwd == InitIdleBase /\ InitForward /\ InitIdlePipe

NextFwd == MakeLossInForward \/ PrepareNone \/ PrepareOther \/ PrepareGiven \/ CallForward

SpecForward == InitFwd /\ [][NextFwd]_vars

\* a Loss object, its add_pre_pro calls and its calls
AddPreProStep ==
    /\ \E func \in PreProInputs : AddPreProCall(func)
    /\ UNCHANGED <<baseVars, fwdVars>>

CallPipe ==
    /\ \E kw \in KwargsInputs : PipeCall(kw)
    /\ UNCHANGED <<baseVars, fwdVars>>

InitLoss == InitIdleBase /\ InitIdleForward /\ InitPipe

NextLoss == AddPreProStep \/ CallPipe

SpecLoss == InitLoss /\ [][NextLoss]_vars

\* ---------------------------------------------------------------- claims
SeqSet(sq) == { sq[i] : i \in DOMAIN sq }

Formals == SeqSet(args) \cup SeqSet(defaults)

\* a LossBase call has been made
Called == outcome # NoOutcome

\* the last call got to line 41 with _checked False
RanChecks == Called /\ ~varargs /\ (~was_checked \/ force_check)

\* the last call got past the raise of line 73
PastChecks == outcome \in {"TypeError_bind", "returned", "RuntimeError_type", "RuntimeError_size"}

Common == DKeys(output_dict) \cap DKeys(target_dict)

GivenKeys == DKeys(output_dict) \cup DKeys(target_dict)

\* the key formal p is mapped to by pm: pm[p], or p when pm has no entry for p
MappedKey(pm, p) == IF p \in DKeys(pm) THEN DGet(pm, p) ELSE p

\* the required formals whose mapped key is in neither dict of the last call
LackingFormals == SelectSeq(args, LAMBDA p : MappedKey(param_map, p) \notin GivenKeys)

\* C1: on a call where the checks run, if output_dict and target_dict share a key,
\* the call raises CheckError, `duplicated` holds exactly the common keys (each
\* once), and get_loss is not invoked.
C1_DuplicatedReported ==
    (RanChecks /\ Common # {}) =>
        /\ outcome = "CheckError"
        /\ SeqSet(duplicated) = Common
        /\ Len(duplicated) = Cardinality(Common)
        /\ invoked = 0

C1_Witness ==
    /\ RanChecks /\ outcome = "CheckError"
    /\ Cardinality(Common) = 2
    /\ Len(duplicated) = 2
    /\ missing = <<>>

\* C2: on a call where the checks run, `missing` is exactly the list of the
\* required formals p of get_loss whose mapped key (param_map[p] as it was when
\* the call began, p itself when there was no entry) is in neither dict; when
\* it is not empty the call raises CheckError and get_loss is not invoked.
C2_MissingReported ==
    [][ (~varargs /\ (~checked \/ force_check')) =>
          LET lacking == SelectSeq(args, LAMBDA p :
                             MappedKey(param_map, p) \notin
                                 (DKeys(output_dict') \cup DKeys(target_dict')))
          IN  /\ missing' = lacking
              /\ lacking # <<>> => (outcome' = "CheckError" /\ invoked' = 0) ]_vars

\* a required formal is reported missing although the dicts hold a key of its own
\* name, because it is mapped to another key
C2_Witness ==
    /\ RanChecks /\ outcome = "CheckError"
    /\ duplicated = <<>>
    /\ target_dict # <<>>
    /\ \E p \in SeqSet(missing) : p \in GivenKeys /\ MappedKey(param_map, p) # p

\* the value stored under key in the dicts of the last call
StoredUnder(key) ==
    { output_dict[i][2] : i \in { j \in DOMAIN output_dict : output_dict[j][1] = key } }
    \cup { target_dict[i][2] : i \in { j \in DOMAIN target_dict : target_dict[j][1] = key } }

\* C3: when a call passes its checks, get_loss is invoked exactly once, and every
\* formal p whose mapped key param_map[p] is in output_dict or target_dict is
\* bound to the value stored under that key.
C3_BoundToMappedKey ==
    (RanChecks /\ PastChecks) =>
        /\ invoked = 1
        /\ \A p \in Formals :
              MappedKey(param_map, p) \in GivenKeys =>
                  /\ p \in DKeys(param_value)
                  /\ DGet(param_value, p) \in StoredUnder(MappedKey(param_map, p))

\* C4 as stated: after any earlier calls, a call whose dicts share a key, or lack
\* the mapped key of a required formal, raises CheckError and does not invoke
\* get_loss.
C4_DetectedOnEveryCall ==
    (Called /\ ~varargs /\ (Common # {} \/ LackingFormals # <<>>)) =>
        (outcome = "CheckError" /\ invoked = 0)

\* C4 amended: after any earlier calls, a call that begins on an unchecked object,
\* or is made with force_check True, and whose dicts share a key or lack the
\* mapped key of a required formal, raises CheckError and does not invoke get_loss.
C4_DetectedWhenChecksRun ==
    (Called /\ ~varargs /\ (~was_checked \/ force_check)
        /\ (Common # {} \/ LackingFormals # <<>>)) =>
        (outcome = "CheckError" /\ invoked = 0)

C4_Witness ==
    /\ Called /\ ~varargs
    /\ was_checked /\ force_check
    /\ Common # {}
    /\ outcome = "CheckError"

\* C6: a call never changes or removes an entry of param_map; a call where the
\* checks run adds exactly the identity entries of the formals (required or
\* defaulted) that had none; a call on a checked object with force_check False
\* leaves param_map as it was.
C6_ParamMapFrame ==
    [][ /\ \A p \in DKeys(param_map) :
              p \in DKeys(param_map') /\ DGet(param_map', p) = DGet(param_map, p)
        /\ (~varargs /\ (~checked \/ force_check')) =>
              /\ DKeys(param_map') = DKeys(param_map) \cup Formals
              /\ \A p \in DKeys(param_map') \ DKeys(param_map) : DGet(param_map', p) = p
        /\ (checked /\ ~force_check') => param_map' = param_map ]_vars

C6_Witness ==
    /\ RanChecks
    /\ Len(param_map) = 2
    /\ defaults # <<>> /\ args # <<>>
    /\ DGet(param_map, args[1]) # args[1]
    /\ DGet(param_map, defaults[1]) = defaults[1]

\* C7: _checked is True after a call exactly when the call got past the
\* missing/duplicated check; a call that raises CheckError leaves the object
\* unchecked, also when it was checked before and force_check is True, and the
\* call after it runs the checks whatever its force_check.
C7_CheckedOnlyAfterPass ==
    [][ /\ checked' <=> (outcome' \in {"TypeError_bind", "returned",
                                       "RuntimeError_type", "RuntimeError_size"})
        /\ outcome' = "CheckError" => ~checked'
        /\ (outcome = "CheckError" /\ DKeys(output_dict') \cap DKeys(target_dict') # {})
              => outcome' = "CheckError" ]_vars

C7_Witness ==
    /\ was_checked /\ force_check
    /\ outcome = "CheckError"
    /\ ~checked

\* C8: a call returns only when get_loss returned a tensor of zero dimensions, and
\* returns that very value; otherwise it raises RuntimeError, with _checked
\* already True.
C8_ReturnsScalarTensorOnly ==
    /\ outcome = "returned" => (invoked = 1 /\ loss.tensor /\ loss.dims = 0 /\ ret = loss)
    /\ invoked = 1 =>
          /\ (loss.tensor /\ loss.dims = 0) => outcome = "returned"
          /\ ~loss.tensor => outcome = "RuntimeError_type"
          /\ (loss.tensor /\ loss.dims > 0) => outcome = "RuntimeError_size"
          /\ outcome \in {"RuntimeError_type", "RuntimeError_size"} =>
                (checked /\ ret = NoVal)

C8_Witness ==
    /\ invoked = 1
    /\ outcome = "RuntimeError_size"
    /\ loss.tensor /\ loss.dims > 0
    /\ checked /\ ~was_checked

\* C9: when output_dict holds a zero-dimensional tensor under loss_key, the call
\* of a LossInForward returns it; when output_dict has no loss_key, the call
\* raises CheckError with missing = [loss_key].
C9_ForwardReturnsLoss ==
    fwd_outcome # NoOutcome =>
        /\ (loss_key \in DKeys(fwd_output)
              /\ DGet(fwd_output, loss_key).tensor
              /\ DGet(fwd_output, loss_key).dims = 0) =>
                  (fwd_outcome = "returned" /\ fwd_ret = DGet(fwd_output, loss_key))
        /\ loss_key \notin DKeys(fwd_output) =>
              (fwd_outcome = "CheckError" /\ fwd_missing = <<loss_key>>)

\* what the entries handed to the constructor, then to add_pre_pro, stand for,
\* None left out
RECURSIVE ResolvedFunctions(_)
ResolvedFunctions(entries) ==
    IF entries = <<>> THEN <<>>
    ELSE LET f == IF entries[1] \in Callables THEN entries[1]
                  ELSE IF entries[1] \in DOMAIN method_dict THEN method_dict[entries[1]]
                  ELSE None
         IN  IF f = None THEN ResolvedFunctions(Tail(entries))
             ELSE <<f>> \o ResolvedFunctions(Tail(entries))

\* C5: a call applies the functions of the constructor's list, in list order, then
\* those added by add_pre_pro, in the order of the calls, each to the pair the
\* one before returned and with the call's kwargs, skipping None; the wrapped
\* loss function is then called once, on the final pair.
C5_PreProInOrder ==
    pipe_outcome # NoOutcome =>
        LET fs == ResolvedFunctions(given \o added)
        IN  /\ loss_arg = [ i \in DOMAIN fs |-> <<fs[i], pipe_kwargs>> ]
            /\ has_loss => (loss_calls = 1 /\ pipe_outcome = "returned")

C5_Witness ==
    /\ pipe_outcome = "returned"
    /\ loss_calls = 1
    /\ Len(given) = 2 /\ given[1] = "bogus" /\ given[2] = FnUser
    /\ Len(added) = 2 /\ added[1] = "mask" /\ added[2] = FnSquash
    /\ Len(loss_arg) = 3

====
